---- MODULE Spec2Model ----
(***************************************************************************)
(* Model of static/app.js: the upload form's submit handler, the review    *)
(* renderer, the copy-to-clipboard click handler and the theme toggle.     *)
(*                                                                         *)
(* JavaScript values are tagged records [t |-> tag, v |-> payload]. A      *)
(* string is the sequence of its characters; the fixed messages of the     *)
(* program are one-element sequences holding the whole message. One step   *)
(* of the model is one turn of the event loop: the synchronous run of a    *)
(* handler up to its next await.                                           *)
(***************************************************************************)
EXTENDS Integers, Sequences, FiniteSets, TLC

VARIABLES
    loadingHidden,   \* loading.hidden
    resultHidden,    \* result.hidden
    errorHidden,     \* errorBox.hidden
    errorText,       \* errorBox.textContent
    page,            \* the elements renderReview writes
    reqs,            \* the submit handler's invocations suspended at an await
    labels,          \* textContent of the attached copy buttons, by section
    clips,           \* click handlers suspended at clipboard.writeText
    timers,          \* pending setTimeout callbacks of the click handler, FIFO
    darkClass,       \* body.classList.contains("dark-theme")
    themeIcon,       \* .theme-icon textContent
    themeLabel,      \* .theme-label textContent
    stored,          \* localStorage[THEME_KEY]
    sysDark,         \* matchMedia("(prefers-color-scheme: dark)").matches
    last,            \* history: the handler step that ran last and its inputs
    before           \* history: the theme state before each of the last toggles

vars == <<loadingHidden, resultHidden, errorHidden, errorText, page, reqs,
          labels, clips, timers, darkClass, themeIcon, themeLabel, stored,
          sysDark, last, before>>

domVars == <<loadingHidden, resultHidden, errorHidden, errorText>>
copyVars == <<labels, clips, timers>>
themeVars == <<darkClass, themeIcon, themeLabel, stored, sysDark, before>>

----------------------------------------------------------------------------
(* Bounds *)

MaxStrLen == 1      \* longest server-supplied string drawn as an input
MaxInFlight == 2    \* submissions suspended at an await at one time
MaxPending == 2     \* clipboard writes plus revert timers pending at one time

----------------------------------------------------------------------------
(* JavaScript values *)

Undef == [t |-> "undef"]
Null == [t |-> "null"]
Num(n) == [t |-> "num", v |-> n]
Str(s) == [t |-> "str", v |-> s]
Arr(a) == [t |-> "arr", v |-> a]
Obj(f) == [t |-> "obj", v |-> f]
EmptyObj == [t |-> "obj", v |-> <<>>]

\* ToBoolean: what  x || d,  x ? a : b  and  !x  test
Truthy(x) ==
    CASE x.t = "undef" -> FALSE
      [] x.t = "null" -> FALSE
      [] x.t = "num" -> x.v # 0
      [] x.t = "str" -> x.v # <<>>
      [] OTHER -> TRUE

\* x || d
OrElse(x, d) == IF Truthy(x) THEN x ELSE d

\* x.k for x neither undefined nor null (the caller checks): own fields of an
\* object, undefined on anything else
Get(x, k) == IF x.t = "obj" /\ k \in DOMAIN x.v THEN x.v[k] ELSE Undef

\* x.k throws a TypeError exactly when x is undefined or null
Nullish(x) == x.t \in {"undef", "null"}

Digits == <<"0", "1", "2", "3", "4", "5", "6", "7", "8", "9">>

RECURSIVE NumStr(_)
\* String(n) for an integer n
NumStr(n) ==
    IF n < 0 THEN <<"-">> \o NumStr(-n)
    ELSE IF n < 10 THEN <<Digits[n + 1]>>
    ELSE NumStr(n \div 10) \o <<Digits[(n % 10) + 1]>>

RECURSIVE ToStr(_), JoinArr(_, _)
\* String(x)
ToStr(x) ==
    CASE x.t = "undef" -> <<"undefined">>
      [] x.t = "null" -> <<"null">>
      [] x.t = "num" -> NumStr(x.v)
      [] x.t = "str" -> x.v
      [] x.t = "arr" -> JoinArr(x.v, <<",">>)
      [] OTHER -> <<"[object Object]">>

\* Array.prototype.join: undefined and null elements give the empty string
JoinArr(a, sep) ==
    IF a = <<>> THEN <<>>
    ELSE LET h == IF Nullish(Head(a)) THEN <<>> ELSE ToStr(Head(a))
         IN IF Len(a) = 1 THEN h ELSE h \o sep \o JoinArr(Tail(a), sep)

----------------------------------------------------------------------------
(* escapeHtml *)

\* variant: a replacement table without the two quote characters
EscapeCharNoQuote(c) ==
    CASE c = "&" -> <<"&", "a", "m", "p", ";">>
      [] c = "<" -> <<"&", "l", "t", ";">>
      [] c = ">" -> <<"&", "g", "t", ";">>
      [] OTHER -> <<c>>

\* the replacement table of escapeHtml
EscapeChar(c) ==
    CASE c = "&" -> <<"&", "a", "m", "p", ";">>
      [] c = "<" -> <<"&", "l", "t", ";">>
      [] c = ">" -> <<"&", "g", "t", ";">>
      [] c = "\"" -> <<"&", "q", "u", "o", "t", ";">>
      [] c = "'" -> <<"&", "#", "3", "9", ";">>
      [] OTHER -> <<c>>

RECURSIVE EscapeSeq(_)
\* text.replace(/[&<>"']/g, ...)
EscapeSeq(s) ==
    IF s = <<>> THEN <<>> ELSE EscapeChar(Head(s)) \o EscapeSeq(Tail(s))

Threw == [threw |-> TRUE, v |-> <<>>]
Ok(s) == [threw |-> FALSE, v |-> s]

\* escapeHtml(text): "" for a falsy argument, the replaced string for a
\* string, a TypeError (text.replace is not a function) for anything else
escapeHtml(text) ==
    IF ~Truthy(text) THEN Ok(<<>>)
    ELSE IF text.t = "str" THEN Ok(EscapeSeq(text.v))
    ELSE Threw

----------------------------------------------------------------------------
(* renderReview *)

SeverityClasses ==
    {"score-excellent", "score-good", "score-average", "score-weak", "score-poor"}

\* the if / else-if chain on the numeric score
ScoreClass(s) ==
    IF s >= 90 THEN "score-excellent"
    ELSE IF s >= 80 THEN "score-good"
    ELSE IF s >= 70 THEN "score-average"
    ELSE IF s >= 50 THEN "score-weak"
    ELSE "score-poor"

\* the placeholder glyph, an em dash in the source
Dash == <<"--">>

NumOrDash(x) == IF x.t = "num" THEN NumStr(x.v) ELSE Dash

\* the markup of the #suggestions region: the interpolated parts of the
\* template, in the order of the template
NoSuggestions ==
    [rendered |-> FALSE, headline |-> <<>>, headlineWhy |-> <<>>,
     about |-> <<>>, aboutWhy |-> <<>>, experience |-> <<>>,
     skillsMissing |-> <<>>, skillsNotes |-> <<>>, keywords |-> <<>>,
     summary |-> <<>>]

\* the elements renderReview writes, as the page is loaded
InitPage ==
    [scoreText |-> <<>>, scoreClasses |-> {}, scoreActionsHidden |-> TRUE,
     profileStatsHidden |-> TRUE, connectionsText |-> <<>>,
     followersText |-> <<>>, suggestions |-> NoSuggestions]

\* const skillsMissing = Array.isArray(skills.missing) ? ... : "Not specified"
SkillsMissing(skills) ==
    LET m == Get(skills, "missing")
    IN IF m.t = "arr" THEN Str(JoinArr(m.v, <<",", " ">>))
       ELSE IF Truthy(m) THEN Str(ToStr(m))
       ELSE Str(<<"Not specified">>)

\* one entry of expList.map(...): item.role throws on undefined and null
ExperienceItem(item) ==
    IF Nullish(item) THEN [threw |-> TRUE, role |-> <<>>, tips |-> <<>>]
    ELSE LET r == escapeHtml(OrElse(Get(item, "role"), Str(<<"Role">>)))
             t == escapeHtml(OrElse(Get(item, "tips"), Str(<<>>)))
         IN [threw |-> r.threw \/ t.threw, role |-> r.v, tips |-> t.v]

\* variant: the severity classes of earlier renders are not removed
RenderScoreKeepClasses(pg, review) ==
    LET score == Get(review, "score")
        hasNumericScore == score.t = "num"
    IN [pg EXCEPT
          !.scoreText = IF hasNumericScore THEN NumStr(score.v) ELSE Dash,
          !.scoreClasses =
              @ \cup (IF hasNumericScore THEN {ScoreClass(score.v)} ELSE {}),
          !.scoreActionsHidden = ~hasNumericScore,
          !.connectionsText = NumOrDash(Get(review, "connections")),
          !.followersText = NumOrDash(Get(review, "followers")),
          !.profileStatsHidden = FALSE]

\* everything renderReview does before it builds the suggestions markup: the
\* score badge, the score actions and the profile stats
RenderScore(pg, review) ==
    LET score == Get(review, "score")
        hasNumericScore == score.t = "num"
    IN [pg EXCEPT
          !.scoreText = IF hasNumericScore THEN NumStr(score.v) ELSE Dash,
          !.scoreClasses =
              (@ \ SeverityClasses)
                \cup (IF hasNumericScore THEN {ScoreClass(score.v)} ELSE {}),
          !.scoreActionsHidden = ~hasNumericScore,
          !.connectionsText = NumOrDash(Get(review, "connections")),
          !.followersText = NumOrDash(Get(review, "followers")),
          !.profileStatsHidden = FALSE]

\* the template literal itself, on its interpolated values (each the result
\* of escapeHtml): the markup, and whether evaluating a value threw
Template(hs, he, as, ae, exp, sm, sn, kw, su) ==
    [threw |-> \/ \E i \in 1..Len(exp) : exp[i].threw
               \/ \E i \in 1..Len(kw) : kw[i].threw
               \/ hs.threw \/ he.threw \/ as.threw \/ ae.threw
               \/ sm.threw \/ sn.threw \/ su.threw,
     html |-> [rendered |-> TRUE,
               headline |-> hs.v, headlineWhy |-> he.v,
               about |-> as.v, aboutWhy |-> ae.v,
               experience |->
                   [i \in 1..Len(exp) |->
                       [role |-> exp[i].role, tips |-> exp[i].tips]],
               skillsMissing |-> sm.v, skillsNotes |-> sn.v,
               keywords |-> [i \in 1..Len(kw) |-> kw[i].v],
               summary |-> su.v]]

\* the value assigned to suggestions.innerHTML, with what its evaluation
\* throws
RenderSuggestions(review) ==
    LET headline == OrElse(Get(review, "headline"), EmptyObj)
        about == OrElse(Get(review, "about"), EmptyObj)
        skills == OrElse(Get(review, "skills"), EmptyObj)
        expList == IF Get(review, "experience").t = "arr"
                   THEN Get(review, "experience").v ELSE <<>>
        keywords == IF Get(review, "keywords").t = "arr"
                    THEN Get(review, "keywords").v ELSE <<>>
    IN Template(
         escapeHtml(OrElse(Get(headline, "suggestion"), Str(<<>>))),
         escapeHtml(OrElse(Get(headline, "explanation"), Str(<<>>))),
         escapeHtml(OrElse(Get(about, "suggestion"), Str(<<>>))),
         escapeHtml(OrElse(Get(about, "explanation"), Str(<<>>))),
         [i \in 1..Len(expList) |-> ExperienceItem(expList[i])],
         escapeHtml(SkillsMissing(skills)),
         escapeHtml(OrElse(Get(skills, "notes"), Str(<<>>))),
         [i \in 1..Len(keywords) |-> escapeHtml(keywords[i])],
         escapeHtml(OrElse(Get(review, "summary"), Str(<<>>))))

\* renderReview(review) on the page pg: the page it leaves and whether it
\* threw. review.score throws on an undefined or null review before anything
\* is written; a throw while the template is evaluated leaves the score
\* badge, score actions and profile stats written and the markup as it was.
renderReview(pg, review) ==
    IF Nullish(review) THEN [page |-> pg, threw |-> TRUE]
    ELSE LET pg1 == RenderScore(pg, review)
             sg == RenderSuggestions(review)
         IN IF sg.threw THEN [page |-> pg1, threw |-> TRUE]
            ELSE [page |-> [pg1 EXCEPT !.suggestions = sg.html],
                  threw |-> FALSE]

----------------------------------------------------------------------------
(* Inputs: the reviews a server can send *)

MaxScore == 100     \* largest score drawn as an input

Chars == {"a", "&", "<", ">", "\"", "'"}

Strs == UNION {[1..k -> Chars] : k \in 0..MaxStrLen}

\* what a field of the review can hold: absent, null, numbers, objects,
\* arrays and every string of Strs
FieldVals ==
    {Undef, Null, Num(0), Num(7), EmptyObj,
     Arr(<<>>), Arr(<<Str(<<"a">>), Str(<<"<">>)>>), Arr(<<Num(7), Null>>)}
      \cup {Str(s) : s \in Strs}

LeafPaths ==
    {"headline.suggestion", "headline.explanation", "about.suggestion",
     "about.explanation", "experience.role", "experience.tips",
     "skills.missing", "skills.notes", "keywords.entry", "summary"}

TopFields == {"headline", "about", "experience", "skills", "keywords"}

\* a well-formed review: every textual field the string "a", score 85
BaseLeaves == [p \in LeafPaths |-> Str(<<"a">>)]

ReviewOf(score, f, item) ==
    Obj([score |-> score,
         connections |-> Num(7),
         followers |-> Undef,
         headline |-> Obj([suggestion |-> f["headline.suggestion"],
                           explanation |-> f["headline.explanation"]]),
         about |-> Obj([suggestion |-> f["about.suggestion"],
                        explanation |-> f["about.explanation"]]),
         experience |-> Arr(<<item>>),
         skills |-> Obj([missing |-> f["skills.missing"],
                         notes |-> f["skills.notes"]]),
         keywords |-> Arr(<<f["keywords.entry"]>>),
         summary |-> f["summary"]])

ItemOf(f) == Obj([role |-> f["experience.role"], tips |-> f["experience.tips"]])

BaseReview == ReviewOf(Num(85), BaseLeaves, ItemOf(BaseLeaves))

\* the well-formed review with one leaf replaced
LeafReview(p, v) ==
    LET f == [BaseLeaves EXCEPT ![p] = v] IN ReviewOf(Num(85), f, ItemOf(f))

\* the well-formed review with one top-level field replaced
TopReview(k, v) == [BaseReview EXCEPT !.v[k] = v]

\* the well-formed review with its experience entry replaced
ItemReview(v) == ReviewOf(Num(85), BaseLeaves, v)

\* the well-formed review with another score
ScoreReview(v) == [BaseReview EXCEPT !.v.score = v]

NonLeafVals == {Undef, Null, Num(7), Str(<<"a">>), EmptyObj}

NonNumericScores == {Undef, Null, Str(<<"a">>)}

----------------------------------------------------------------------------
(* Initial state *)

Sections == {"headline", "about", "summary"}   \* the data-section keys

NoButton == "(none)"        \* no copy button of that section is attached

NoItem == "(null)"          \* localStorage.getItem of a key that is not set

\* history record: the handler step that ran (op), how it ended (outcome)
\* and, for a call of renderReview, the score it was passed
Step(op, outcome, score) == [op |-> op, outcome |-> outcome, score |-> score]

Fresh == Step("load", "none", Undef)

\* function applyTheme(theme): the class, icon and label it leaves
applyTheme(theme) ==
    IF theme = "dark"
    THEN [dark |-> TRUE, icon |-> "moon", label |-> "Dark mode on"]
    ELSE [dark |-> FALSE, icon |-> "sun", label |-> "Dark mode"]

\* function getPreferredTheme(), on the stored item and the system preference
getPreferredTheme(item, systemPrefersDark) ==
    IF item = "light" \/ item = "dark" THEN item
    ELSE IF systemPrefersDark THEN "dark" ELSE "light"

\* applyTheme(getPreferredTheme()) at load, with item in storage
ThemeAtLoad(item, systemPrefersDark) ==
    LET th == applyTheme(getPreferredTheme(item, systemPrefersDark))
    IN /\ stored = item
       /\ sysDark = systemPrefersDark
       /\ darkClass = th.dark
       /\ themeIcon = th.icon
       /\ themeLabel = th.label
       /\ before = <<>>

\* the page as loaded, before any handler has run
InitDom ==
    /\ loadingHidden = TRUE
    /\ resultHidden = TRUE
    /\ errorHidden = TRUE
    /\ errorText = <<>>
    /\ page = InitPage
    /\ reqs = <<>>
    /\ labels = [k \in Sections |-> NoButton]
    /\ clips = <<>>
    /\ timers = <<>>
    /\ last = Fresh

\* load with an empty storage on a system that prefers light
Init == InitDom /\ ThemeAtLoad(NoItem, FALSE)

----------------------------------------------------------------------------
(* SpecRender: renderReview applied to every review of Reviews, repeatedly *)

\* one call renderReview(review); the history keeps the score passed and
\* whether the call threw
RenderStep(review) ==
    \E r \in {renderReview(page, review)} :
       /\ page' = r.page
       /\ last' = Step("render", IF r.threw THEN "threw" ELSE "ok",
                        Get(review, "score"))
       /\ UNCHANGED <<domVars, reqs, copyVars, themeVars>>

\* the reviews drawn: the well-formed review with one leaf, one top-level
\* field, its experience entry or its score replaced, and the empty object
NextRender ==
    \/ \E p \in LeafPaths, v \in FieldVals : RenderStep(LeafReview(p, v))
    \/ \E k \in TopFields, v \in NonLeafVals : RenderStep(TopReview(k, v))
    \/ \E v \in NonLeafVals : RenderStep(ItemReview(v))
    \/ \E n \in 0..MaxScore : RenderStep(ScoreReview(Num(n)))
    \/ \E v \in NonNumericScores : RenderStep(ScoreReview(v))
    \/ RenderStep(EmptyObj)

SpecRender == Init /\ [][NextRender]_vars

----------------------------------------------------------------------------
(* The submit handler *)

\* showError(message) and clearError(), on <<errorHidden, errorText>>
showError(message) == /\ errorText' = message
                      /\ errorHidden' = FALSE

clearError == /\ errorHidden' = TRUE
              /\ errorText' = <<>>

DetailsMax == 300

Slice(s, n) == SubSeq(s, 1, IF Len(s) < n THEN Len(s) ELSE n)

\* the message of the Error thrown for a response that is not OK
FailureMessage(data) ==
    IF Truthy(data) /\ Truthy(Get(data, "error"))
    THEN ToStr(Get(data, "error"))
           \o (IF Truthy(Get(data, "details"))
               THEN <<" - ">> \o Slice(ToStr(Get(data, "details")), DetailsMax)
               ELSE <<>>)
    ELSE <<"Review failed. Please try again.">>

\* what a throw statement or a failing call hands to the catch clause
ErrorOf(message) == [isError |-> TRUE, message |-> message]
PlainObject == [isError |-> FALSE, message |-> <<>>]
TypeError == ErrorOf(<<"TypeError">>)

\* const message = err instanceof Error ? err.message : "Failed to get review."
CatchMessage(err) ==
    IF err.isError THEN err.message ELSE <<"Failed to get review.">>

\* variant: loading is hidden at the end of the try block, not in a finally
FinallyOnSuccessOnly(outcome) == outcome = "ok"

\* the finally clause runs loading.hidden = true after every outcome
FinallyRuns(outcome) == TRUE

\* the try block from the point where res.json() settles: how it ends, the
\* page it leaves, and what it threw
TryBlock(pg, ok, body) ==
    IF ~body.valid
    THEN [outcome |-> "unparseable", page |-> pg, err |-> PlainObject]
    ELSE IF ~ok
    THEN [outcome |-> "status", page |-> pg,
          err |-> ErrorOf(FailureMessage(body.data))]
    ELSE IF Nullish(body.data)
    THEN [outcome |-> "threw", page |-> pg, err |-> TypeError]
    ELSE LET r == renderReview(pg, Get(body.data, "review"))
         IN IF r.threw
            THEN [outcome |-> "threw", page |-> r.page, err |-> TypeError]
            ELSE [outcome |-> "ok", page |-> r.page, err |-> PlainObject]

RemoveAt(q, i) == SubSeq(q, 1, i - 1) \o SubSeq(q, i + 1, Len(q))

\* variant: the return after the validation error is missing
SubmitNoFileFallsThrough ==
    /\ Len(reqs) < MaxInFlight
    /\ showError(<<"Please select a LinkedIn PDF file.">>)
    /\ loadingHidden' = FALSE
    /\ resultHidden' = TRUE
    /\ reqs' = Append(reqs, "fetch")
    /\ last' = Step("submitNoFile", "none", Undef)
    /\ UNCHANGED <<page, copyVars, themeVars>>

\* submit with no file selected: clearError, showError, return
SubmitNoFile ==
    /\ showError(<<"Please select a LinkedIn PDF file.">>)
    /\ last' = Step("submitNoFile", "none", Undef)
    /\ UNCHANGED <<loadingHidden, resultHidden, page, reqs, copyVars, themeVars>>

\* variant: result.hidden = true is missing
SubmitKeepResult ==
    /\ Len(reqs) < MaxInFlight
    /\ clearError
    /\ loadingHidden' = FALSE
    /\ reqs' = Append(reqs, "fetch")
    /\ last' = Step("submit", "none", Undef)
    /\ UNCHANGED <<resultHidden, page, copyVars, themeVars>>

\* submit with a file selected, up to the await of fetch
Submit ==
    /\ Len(reqs) < MaxInFlight
    /\ clearError
    /\ loadingHidden' = FALSE
    /\ resultHidden' = TRUE
    /\ reqs' = Append(reqs, "fetch")
    /\ last' = Step("submit", "none", Undef)
    /\ UNCHANGED <<page, copyVars, themeVars>>

\* fetch resolves with a response: the handler goes on to await res.json()
FetchResolve(i) ==
    /\ reqs[i] = "fetch"
    /\ reqs' = [reqs EXCEPT ![i] = "json"]
    /\ last' = Step("fetchResolved", "none", Undef)
    /\ UNCHANGED <<domVars, page, copyVars, themeVars>>

\* the catch and finally clauses after a failure err
Fail(outcome, err) ==
    /\ showError(CatchMessage(err))
    /\ loadingHidden' = IF FinallyRuns(outcome) THEN TRUE ELSE loadingHidden
    /\ UNCHANGED resultHidden

\* fetch rejects (network failure): catch, finally
FetchReject(i, message) ==
    /\ reqs[i] = "fetch"
    /\ reqs' = RemoveAt(reqs, i)
    /\ Fail("network", ErrorOf(message))
    /\ last' = Step("settled", "network", Undef)
    /\ UNCHANGED <<page, copyVars, themeVars>>

\* the copy buttons after the try block: assigning suggestions.innerHTML
\* replaces the buttons, and what waits on the old ones now acts on
\* detached elements
Detach(q) == [j \in 1..Len(q) |-> [q[j] EXCEPT !.attached = FALSE]]

\* res.json() settles, on a response with status ok and body body: the rest
\* of the handler runs to its end
JsonSettle(i, ok, body) ==
    \E t \in {TryBlock(page, ok, body)} :
       /\ reqs[i] = "json"
       /\ reqs' = RemoveAt(reqs, i)
       /\ page' = t.page
       /\ IF t.outcome = "ok"
          THEN /\ resultHidden' = FALSE
               /\ loadingHidden' =
                      IF FinallyRuns(t.outcome) THEN TRUE ELSE loadingHidden
               /\ UNCHANGED <<errorHidden, errorText>>
          ELSE Fail(t.outcome, t.err)
       /\ IF t.outcome = "ok"
          THEN /\ labels' = [k \in Sections |-> "Copy text"]
               /\ clips' = Detach(clips)
               /\ timers' = Detach(timers)
          ELSE UNCHANGED copyVars
       /\ last' = Step("settled", t.outcome, Undef)
       /\ UNCHANGED themeVars

----------------------------------------------------------------------------
(* Spec: submissions of the form, overlapping, with every kind of response *)

DataOf(review, error, details) ==
    Obj([review |-> review, error |-> error, details |-> details])

\* a review with a wrong-typed keyword and score 40
BadReview == [LeafReview("keywords.entry", Num(7)) EXCEPT !.v.score = Num(40)]

\* the parsed bodies drawn: null, {review} with a well-formed, a wrong-typed,
\* an empty and no review, {error, details} and {error}
Datas ==
    {Null,
     DataOf(BaseReview, Undef, Undef),
     DataOf(BadReview, Undef, Undef),
     DataOf(EmptyObj, Undef, Undef),
     DataOf(Undef, Undef, Undef),
     DataOf(Undef, Str(<<"E">>), Str(<<"d">>)),
     DataOf(Undef, Str(<<"E">>), Undef)}

Bodies ==
    {[valid |-> FALSE, data |-> Undef]}
      \cup {[valid |-> TRUE, data |-> d] : d \in Datas}

NetworkMessages == {<<"Failed to fetch">>}

Next ==
    \/ SubmitNoFile
    \/ Submit
    \/ \E i \in 1..Len(reqs) : FetchResolve(i)
    \/ \E i \in 1..Len(reqs), m \in NetworkMessages : FetchReject(i, m)
    \/ \E i \in 1..Len(reqs), ok \in BOOLEAN, body \in Bodies :
           JsonSettle(i, ok, body)

Spec == Init /\ [][Next]_vars

----------------------------------------------------------------------------
(* The click handler of the copy buttons *)

Entities ==
    {<<"&", "a", "m", "p", ";">>, <<"&", "l", "t", ";">>, <<"&", "g", "t", ";">>,
     <<"&", "q", "u", "o", "t", ";">>, <<"&", "#", "3", "9", ";">>}

StartsWith(s, e) == Len(s) >= Len(e) /\ SubSeq(s, 1, Len(e)) = e

Decoded(e) == CHOOSE c \in Chars : EscapeChar(c) = e

RECURSIVE Unescape(_)
\* the text the HTML parser makes of markup text: character references decoded
Unescape(s) ==
    IF s = <<>> THEN <<>>
    ELSE IF \E e \in Entities : StartsWith(s, e)
    THEN LET e == CHOOSE x \in Entities : StartsWith(s, x)
         IN <<Decoded(e)>> \o Unescape(SubSeq(s, Len(e) + 1, Len(s)))
    ELSE <<Head(s)>> \o Unescape(Tail(s))

\* contentEl.textContent of the element with data-section-content = k
SectionText(k) ==
    Unescape(CASE k = "headline" -> page.suggestions.headline
               [] k = "about" -> page.suggestions.about
               [] OTHER -> page.suggestions.summary)

\* !text.trim(): nothing but white space
Blank(text) == \A j \in 1..Len(text) : text[j] = " "

\* click on the attached copy button of section k, up to the await of
\* clipboard.writeText; empty content returns at once
Click(k) ==
    /\ labels[k] # NoButton
    /\ IF Blank(SectionText(k))
       THEN /\ last' = Step("click", "empty", Undef)
            /\ UNCHANGED clips
       ELSE /\ Len(clips) + Len(timers) < MaxPending
            /\ clips' = Append(clips, [section |-> k, attached |-> TRUE,
                                       original |-> ""])
            /\ last' = Step("click", "writing", Undef)
    /\ UNCHANGED <<domVars, page, reqs, labels, timers, themeVars>>

\* writeText resolves: the label is read, swapped, and the revert timer set
ClipResolve(i) ==
    LET c == clips[i]
    IN /\ clips' = RemoveAt(clips, i)
       /\ IF c.attached
          THEN /\ timers' = Append(timers, [c EXCEPT !.original = labels[c.section]])
               /\ labels' = [labels EXCEPT ![c.section] = "Copied!"]
          ELSE /\ timers' = Append(timers, c)
               /\ UNCHANGED labels
       /\ last' = Step("clipResolved", "none", Undef)
       /\ UNCHANGED <<domVars, page, reqs, themeVars>>

\* writeText rejects: showError
ClipReject(i) ==
    /\ clips' = RemoveAt(clips, i)
    /\ showError(<<"Could not copy text to clipboard.">>)
    /\ last' = Step("clipRejected", "none", Undef)
    /\ UNCHANGED <<loadingHidden, resultHidden, page, reqs, labels, timers,
                   themeVars>>

\* the oldest revert timer fires (all have the same delay)
TimerFire ==
    /\ timers # <<>>
    /\ LET h == Head(timers)
       IN IF h.attached
          THEN labels' = [labels EXCEPT ![h.section] =
                             IF h.original # "" THEN h.original ELSE "Copy text"]
          ELSE UNCHANGED labels
    /\ timers' = Tail(timers)
    /\ last' = Step("timer", "none", Undef)
    /\ UNCHANGED <<domVars, page, reqs, clips, themeVars>>

\* the bodies drawn under SpecCopy: a well-formed review, and one with white
\* space for a summary
CopyBodies ==
    {[valid |-> TRUE, data |-> DataOf(r, Undef, Undef)] :
        r \in {BaseReview, LeafReview("summary", Str(<<" ">>))}}

NextCopy ==
    \/ Submit
    \/ \E i \in 1..Len(reqs) : FetchResolve(i)
    \/ \E i \in 1..Len(reqs), body \in CopyBodies : JsonSettle(i, TRUE, body)
    \/ \E k \in Sections : Click(k)
    \/ \E i \in 1..Len(clips) : ClipResolve(i)
    \/ \E i \in 1..Len(clips) : ClipReject(i)
    \/ TimerFire

SpecCopy == Init /\ [][NextCopy]_vars

----------------------------------------------------------------------------
(* The theme toggle *)

StoredItems == {NoItem, "light", "dark", "blue"}

InitTheme ==
    InitDom /\ \E item \in StoredItems, d \in BOOLEAN : ThemeAtLoad(item, d)

Snapshot ==
    [dark |-> darkClass, icon |-> themeIcon, label |-> themeLabel,
     stored |-> stored]

\* variant: the current theme is read from storage, not from the class
IsDarkFromStorage == stored = "dark"

\* const isDark = document.body.classList.contains("dark-theme")
IsDark == darkClass

\* click on the theme toggle; setItem may throw, which is swallowed
ThemeToggle(writeOk) ==
    LET nextTheme == IF IsDark THEN "light" ELSE "dark"
        th == applyTheme(nextTheme)
    IN /\ darkClass' = th.dark
       /\ themeIcon' = th.icon
       /\ themeLabel' = th.label
       /\ stored' = IF writeOk THEN nextTheme ELSE stored
       /\ before' = IF before = <<>> THEN <<Snapshot>>
                    ELSE <<before[Len(before)], Snapshot>>
       /\ last' = Step("toggle", IF writeOk THEN "stored" ELSE "storeFailed",
                       Undef)
       /\ UNCHANGED <<domVars, page, reqs, copyVars, sysDark>>

\* the page is loaded again: applyTheme(getPreferredTheme()) on what storage
\* and the system now hold
Reload ==
    LET th == applyTheme(getPreferredTheme(stored, sysDark))
    IN /\ darkClass' = th.dark
       /\ themeIcon' = th.icon
       /\ themeLabel' = th.label
       /\ before' = <<>>
       /\ last' = Fresh
       /\ UNCHANGED <<domVars, page, reqs, copyVars, stored, sysDark>>

\* the system's color-scheme preference changes; the page does not listen
SystemPreferenceChange ==
    /\ sysDark' = ~sysDark
    /\ last' = Step("system", "none", Undef)
    /\ UNCHANGED <<domVars, page, reqs, copyVars, darkClass, themeIcon,
                   themeLabel, stored, before>>

NextTheme ==
    \/ \E writeOk \in BOOLEAN : ThemeToggle(writeOk)
    \/ Reload
    \/ SystemPreferenceChange

SpecTheme == InitTheme /\ [][NextTheme]_vars

----------------------------------------------------------------------------
(* Properties of the submit handler, under Spec *)

\* C1: every submission that passed the file-selected check leaves the
\* loading indicator hidden when it completes, whatever the outcome, and the
\* indicator is hidden whenever no submission is in flight.
C1_LoadingHiddenAfterCompletion ==
    /\ last.op = "settled" => loadingHidden
    /\ reqs = <<>> => loadingHidden

\* a submission completed by an exception thrown inside renderReview, after
\* the score of the review was written
C1_SettledByRenderThrow ==
    /\ last.op = "settled"
    /\ last.outcome = "threw"
    /\ page.scoreText = <<"4", "0">>
    /\ loadingHidden

\* C2: a submission with no file selected issues no request, shows the local
\* validation error, and leaves the loading indicator and the result
\* container as they were.
C2_NoFileNoRequest ==
    [][last'.op = "submitNoFile" =>
          /\ reqs' = reqs
          /\ loadingHidden' = loadingHidden
          /\ resultHidden' = resultHidden
          /\ ~errorHidden'
          /\ errorText' = <<"Please select a LinkedIn PDF file.">>]_vars

\* a submission with no file selected, made while two requests are in flight
\* and the loading indicator shows
C2_NoFileWhileLoading ==
    /\ last.op = "submitNoFile"
    /\ Len(reqs) = 2
    /\ ~loadingHidden
    /\ errorText = <<"Please select a LinkedIn PDF file.">>

\* C3: a response body that is not valid JSON shows the message "Server
\* returned an invalid response." in the error region.
C3_InvalidResponseMessage ==
    (last.op = "settled" /\ last.outcome = "unparseable") =>
        (~errorHidden /\ errorText = <<"Server returned an invalid response.">>)

\* C4: a submission that ends in a failure shows one error string and
\* renders nothing: the elements renderReview writes are what they were, and
\* the result container is not revealed.
C4_FailureRendersNothing ==
    [][(last'.op = "settled" /\ last'.outcome # "ok") =>
          /\ page' = page
          /\ resultHidden' = resultHidden
          /\ ~errorHidden'
          /\ errorText' # <<>>]_vars

\* C10: the loading indicator and the result container are never both
\* visible between two turns of the event loop, also when submissions
\* overlap and complete in any order.
C10_NeverBothVisible == loadingHidden \/ resultHidden

\* a submission has succeeded and revealed the result while another one is
\* still in flight
C10_ResultShownWhileInFlight ==
    /\ last.op = "settled"
    /\ last.outcome = "ok"
    /\ ~resultHidden
    /\ loadingHidden
    /\ Len(reqs) >= 1

----------------------------------------------------------------------------
(* Properties of renderReview, under SpecRender *)

\* C5: after any sequence of calls, when the latest review has a numeric
\* score s the score element carries exactly one severity class: excellent
\* for s >= 90, good for 80..89, average for 70..79, weak for 50..69, poor
\* below 50.
C5_OneSeverityClass ==
    (last.op = "render" /\ last.score.t = "num") =>
        LET s == last.score.v
            c == page.scoreClasses \cap SeverityClasses
        IN /\ Cardinality(c) = 1
           /\ "score-excellent" \in c <=> s >= 90
           /\ "score-good" \in c <=> (s >= 80 /\ s <= 89)
           /\ "score-average" \in c <=> (s >= 70 /\ s <= 79)
           /\ "score-weak" \in c <=> (s >= 50 /\ s <= 69)
           /\ "score-poor" \in c <=> s <= 49

\* a review with score 89 was rendered and the badge is "good"
C5_Rendered89 ==
    /\ last.op = "render"
    /\ last.score = Num(89)
    /\ page.scoreText = <<"8", "9">>
    /\ page.scoreClasses = {"score-good"}

\* C6: renderReview does not throw on a review object, whatever is missing
\* or wrong-typed in it.
C6_RenderNeverThrows == last.op = "render" => last.outcome = "ok"

RawChars == {"<", ">", "\"", "'"}

\* s holds no raw markup character, and every & in it starts one of the five
\* entities
Escaped(s) ==
    \A j \in 1..Len(s) :
        /\ s[j] \notin RawChars
        /\ s[j] = "&" => \E e \in Entities : StartsWith(SubSeq(s, j, Len(s)), e)

\* every interpolated part of the suggestions markup
Slots(sg) ==
    {sg.headline, sg.headlineWhy, sg.about, sg.aboutWhy, sg.skillsMissing,
     sg.skillsNotes, sg.summary}
      \cup {sg.experience[j].role : j \in 1..Len(sg.experience)}
      \cup {sg.experience[j].tips : j \in 1..Len(sg.experience)}
      \cup {sg.keywords[j] : j \in 1..Len(sg.keywords)}

\* C7: whatever strings the review holds, the content written into the
\* suggestions region holds < > & " ' only as the entities &lt; &gt; &amp;
\* &quot; &#39;.
C7_OnlyEscapedMarkup == \A s \in Slots(page.suggestions) : Escaped(s)

\* a review whose keyword is the string " was rendered as &quot;
C7_QuoteRendered ==
    /\ last.op = "render"
    /\ last.outcome = "ok"
    /\ page.suggestions.keywords = <<EscapeSeq(<<"\"">>)>>
    /\ page.suggestions.keywords = <<(<<"&", "q", "u", "o", "t", ";">>)>>

----------------------------------------------------------------------------
(* Properties of the theme toggle, under SpecTheme *)

\* C8 as stated: two toggles restore the class, icon, label and the stored
\* value.
C8_TwoTogglesRestoreAll == Len(before) = 2 => Snapshot = before[1]

\* C8 as amended: two toggles restore the class, icon and label; the stored
\* value is the name of the displayed theme whenever the last write went
\* through, so it is the original one only if that named the theme displayed.
C8_TwoTogglesRestoreVisible ==
    Len(before) = 2 =>
        /\ darkClass = before[1].dark
        /\ themeIcon = before[1].icon
        /\ themeLabel = before[1].label
        /\ (last.op = "toggle" /\ last.outcome = "stored") =>
               stored = (IF darkClass THEN "dark" ELSE "light")

\* two toggles from an empty storage: the dark theme shows again and the key
\* now holds "dark"
C8_ToggledTwiceFromUnset ==
    /\ Len(before) = 2
    /\ before[1].stored = NoItem
    /\ before[1].dark
    /\ last.op = "toggle"
    /\ last.outcome = "stored"
    /\ darkClass
    /\ stored = "dark"

----------------------------------------------------------------------------
(* Properties of the copy buttons, under SpecCopy *)

\* C9: once every pending clipboard write and revert timer is done, no copy
\* button shows the confirmation string.
C9_LabelReverts ==
    (clips = <<>> /\ timers = <<>>) => \A k \in Sections : labels[k] # "Copied!"

====
